---- MODULE Spec2Model ----
(***************************************************************************)
(* Model of the entity-list crate: the generational slot registry          *)
(* EntityList (src/src/lib.rs) and the split-borrow iterator EntityDynIter *)
(* (src/src/iter.rs).                                                      *)
(*                                                                         *)
(* Indices are 0-based as in the source; TLA+ sequences are 1-based, so    *)
(* the entry with index i is list[i + 1].                                  *)
(***************************************************************************)
EXTENDS Integers, Sequences, FiniteSets

\* ------------------------------------------------------------------ bounds
\* Largest number of slots the registry grows to.
MaxLen == 4
\* Largest generation a slot is bumped to (keeps entry.gen far below u32::MAX).
MaxGen == 1
\* Largest number of forks (exclude_copy) alive on top of the root iterator.
MaxForks == 1

\* ------------------------------------------------------------- value space
\* Option::None, for Option<Entity> and Option<&Entity>.
None == "None"
\* Entity { name }: the payload is its name.
Payloads == {"a", "b"}

Ids == 0..MaxLen
Gens == 0..MaxGen
\* struct EntityId { id, gen }
EntityId == [id : Ids, gen : Gens]

VARIABLES
    list,    \* EntityList.0 : Vec<EntityEntry>, entries [gen, entity]
    iters,   \* stack of live EntityDynIter values borrowing list; the last is usable
    excl,    \* ghost: per live iterator, the indices carved out of it so far
    issued,  \* ghost: every handle add returned, whether a remove with its index
             \*        happened since, and the payload last stored under it until then
    op,      \* the last operation called: its name, and for remove the handle passed
    ret      \* what the last operation returned

vars == <<list, iters, excl, issued, op, ret>>

\* ---------------------------------------------------------------- EntityEntry
\* EntityEntry::get_mut
entry_get_mut(entry, id) ==
    IF entry.gen = id.gen THEN entry.entity ELSE None

\* ----------------------------------------------------------------- EntityList
\* The scan of add: the first index >= i (0-based) whose entry is vacant,
\* Len(l) when the loop runs off the end.
RECURSIVE first_vacant(_, _)
first_vacant(l, i) ==
    IF i >= Len(l) THEN Len(l)
    ELSE IF l[i + 1].entity = None THEN i
    ELSE first_vacant(l, i + 1)

\* add with the scan's test inverted (is_some for is_none): it overwrites the
\* first occupied slot.
add_entries_overwrite(l, entity) ==
    IF Len(l) > 0 /\ l[1].entity # None
    THEN [l EXCEPT ![1] = [gen |-> @.gen + 1, entity |-> entity]]
    ELSE Append(l, [gen |-> 0, entity |-> entity])

\* add without entry.gen += 1.
add_entries_no_bump(l, entity) ==
    LET i == first_vacant(l, 0) IN
    IF i < Len(l)
    THEN [l EXCEPT ![i + 1] = [gen |-> @.gen, entity |-> entity]]
    ELSE Append(l, [gen |-> 0, entity |-> entity])

\* add that never reuses a vacant slot.
add_entries_push(l, entity) == Append(l, [gen |-> 0, entity |-> entity])

\* add whose push, too, counts as an insertion: a new slot starts at gen 1.
add_entries_push_counted(l, entity) ==
    LET i == first_vacant(l, 0) IN
    IF i < Len(l)
    THEN [l EXCEPT ![i + 1] = [gen |-> @.gen + 1, entity |-> entity]]
    ELSE Append(l, [gen |-> 1, entity |-> entity])

\* EntityList::add, the vector after the call.
add_entries(l, entity) ==
    LET i == first_vacant(l, 0) IN
    IF i < Len(l)
    THEN [l EXCEPT ![i + 1] = [gen |-> @.gen + 1, entity |-> entity]]
    ELSE Append(l, [gen |-> 0, entity |-> entity])

\* The handle add would return if it took the generation before entry.gen += 1.
add_id_before_bump(l) ==
    LET i == first_vacant(l, 0) IN
    IF i < Len(l)
    THEN [id |-> i, gen |-> l[i + 1].gen]
    ELSE [id |-> Len(l), gen |-> 0]

\* EntityList::add, the handle returned.
add_id(l) ==
    LET i == first_vacant(l, 0) IN
    IF i < Len(l)
    THEN [id |-> i, gen |-> l[i + 1].gen + 1]
    ELSE [id |-> Len(add_entries(l, None)) - 1, gen |-> 0]

\* remove that checks the generation as get does.
remove_entries_checked(l, id) ==
    IF id.id < Len(l) /\ l[id.id + 1].gen = id.gen
    THEN [l EXCEPT ![id.id + 1] = [gen |-> @.gen, entity |-> None]]
    ELSE l

\* remove that takes the slot out of the vector (Vec::remove), closing the gap.
remove_entries_compacting(l, id) ==
    IF id.id < Len(l)
    THEN SubSeq(l, 1, id.id) \o SubSeq(l, id.id + 2, Len(l))
    ELSE l

\* EntityList::remove, the vector after the call (Option::take on the entity).
remove_entries(l, id) ==
    IF id.id < Len(l)
    THEN [l EXCEPT ![id.id + 1] = [gen |-> @.gen, entity |-> None]]
    ELSE l

\* EntityList::remove, the payload returned.
remove_res(l, id) ==
    IF id.id < Len(l) THEN l[id.id + 1].entity ELSE None

\* EntityList::get
get_res(l, id) ==
    IF id.id < Len(l)
    THEN IF l[id.id + 1].gen = id.gen THEN l[id.id + 1].entity ELSE None
    ELSE None

\* EntityList::get_mut
get_mut_res(l, id) ==
    IF id.id < Len(l)
    THEN IF l[id.id + 1].gen = id.gen THEN l[id.id + 1].entity ELSE None
    ELSE None

\* <[T]>::split_at_mut(mid): panics when mid > len, so callers test that first.
split_at_mut(s, mid) == <<SubSeq(s, 1, mid), SubSeq(s, mid + 1, Len(s))>>

\* slice.get_mut(i).and_then(|entry| entry.get_mut(id))
slice_get_mut(s, i, id) ==
    IF i < Len(s) THEN entry_get_mut(s[i + 1], id) ELSE None

\* first_mut() without the generation check of EntityEntry::get_mut.
slice_first_mut_unchecked(s, id) ==
    IF Len(s) > 0 THEN s[1].entity ELSE None

\* slice.first_mut().and_then(|s| s.get_mut(id))
slice_first_mut(s, id) ==
    IF Len(s) > 0 THEN entry_get_mut(s[1], id) ELSE None

\* get_pair_mut whose last branch looks up both handles.
get_pair_mut_res_both(l, a, b) ==
    IF a.id < b.id THEN
        IF b.id > Len(l) THEN [panic |-> TRUE, x |-> None, y |-> None]
        ELSE LET lr == split_at_mut(l, b.id) IN
             [panic |-> FALSE,
              x |-> slice_get_mut(lr[1], a.id, a),
              y |-> slice_first_mut(lr[2], b)]
    ELSE IF b.id < a.id THEN
        IF a.id > Len(l) THEN [panic |-> TRUE, x |-> None, y |-> None]
        ELSE LET lr == split_at_mut(l, a.id) IN
             [panic |-> FALSE,
              x |-> slice_first_mut(lr[2], a),
              y |-> slice_get_mut(lr[1], b.id, b)]
    ELSE IF (IF a.id < Len(l) THEN a.gen # l[a.id + 1].gen ELSE TRUE) THEN
        [panic |-> FALSE, x |-> None, y |-> slice_get_mut(l, b.id, b)]
    ELSE
        [panic |-> FALSE, x |-> slice_get_mut(l, a.id, a), y |-> slice_get_mut(l, b.id, b)]

\* get_pair_mut whose second branch returns the halves in slice order, not in
\* argument order.
get_pair_mut_res_slice_order(l, a, b) ==
    IF a.id < b.id THEN
        IF b.id > Len(l) THEN [panic |-> TRUE, x |-> None, y |-> None]
        ELSE LET lr == split_at_mut(l, b.id) IN
             [panic |-> FALSE,
              x |-> slice_get_mut(lr[1], a.id, a),
              y |-> slice_first_mut(lr[2], b)]
    ELSE IF b.id < a.id THEN
        IF a.id > Len(l) THEN [panic |-> TRUE, x |-> None, y |-> None]
        ELSE LET lr == split_at_mut(l, a.id) IN
             [panic |-> FALSE,
              x |-> slice_get_mut(lr[1], b.id, b),
              y |-> slice_first_mut(lr[2], a)]
    ELSE IF (IF a.id < Len(l) THEN a.gen # l[a.id + 1].gen ELSE TRUE) THEN
        [panic |-> FALSE, x |-> None, y |-> slice_get_mut(l, b.id, b)]
    ELSE
        [panic |-> FALSE, x |-> slice_get_mut(l, a.id, a), y |-> None]

\* EntityList::get_pair_mut: [panic, x, y]; panic is split_at_mut's bound check.
get_pair_mut_res(l, a, b) ==
    IF a.id < b.id THEN
        IF b.id > Len(l) THEN [panic |-> TRUE, x |-> None, y |-> None]
        ELSE LET lr == split_at_mut(l, b.id) IN
             [panic |-> FALSE,
              x |-> slice_get_mut(lr[1], a.id, a),
              y |-> slice_first_mut(lr[2], b)]
    ELSE IF b.id < a.id THEN
        IF a.id > Len(l) THEN [panic |-> TRUE, x |-> None, y |-> None]
        ELSE LET lr == split_at_mut(l, a.id) IN
             [panic |-> FALSE,
              x |-> slice_first_mut(lr[2], a),
              y |-> slice_get_mut(lr[1], b.id, b)]
    ELSE IF (IF a.id < Len(l) THEN a.gen # l[a.id + 1].gen ELSE TRUE) THEN
        [panic |-> FALSE, x |-> None, y |-> slice_get_mut(l, b.id, b)]
    ELSE
        [panic |-> FALSE, x |-> slice_get_mut(l, a.id, a), y |-> None]

\* ------------------------------------------------------------ call records
NoId == [id |-> 0, gen |-> 0]
\* [name: the method called; id: the handle passed to remove, whose result does
\*  not show which handle it was given (NoId for every other method)]
Call(name, id) == [name |-> name, id |-> id]
\* [panic: the call panicked; some: an Option result is Some; id: a returned
\*  handle; x, y: returned payloads; seq: the items an iteration yielded]
Ret(some, id, x, y, seq) ==
    [panic |-> FALSE, some |-> some, id |-> id, x |-> x, y |-> y, seq |-> seq]
Panicked == [panic |-> TRUE, some |-> FALSE, id |-> NoId, x |-> None, y |-> None, seq |-> <<>>]

\* The thread is still running (no panic unwound it) and nothing borrows list.
Running == ~ret.panic
Unborrowed == iters = <<>>

Init ==
    /\ list = <<>>
    /\ iters = <<>>
    /\ excl = <<>>
    /\ issued = {}
    /\ op = Call("default", NoId)
    /\ ret = Ret(FALSE, NoId, None, None, <<>>)

\* el.add(Entity { name: entity })
add(entity) ==
    /\ Running /\ Unborrowed
    /\ LET i == first_vacant(list, 0) IN
       IF i < Len(list) THEN list[i + 1].gen < MaxGen ELSE Len(list) < MaxLen
    /\ list' = add_entries(list, entity)
    /\ issued' = issued \cup {[h |-> add_id(list), p |-> entity, removed |-> FALSE]}
    /\ op' = Call("add", NoId)
    /\ ret' = Ret(TRUE, add_id(list), None, None, <<>>)
    /\ UNCHANGED <<iters, excl>>

\* el.remove(id)
remove(id) ==
    /\ Running /\ Unborrowed
    /\ list' = remove_entries(list, id)
    /\ issued' = {IF r.h.id = id.id THEN [r EXCEPT !.removed = TRUE, !.p = None] ELSE r
                   : r \in issued}
    /\ op' = Call("remove", id)
    /\ ret' = Ret(remove_res(list, id) # None, NoId, remove_res(list, id), None, <<>>)
    /\ UNCHANGED <<iters, excl>>

\* el.get(id)
get(id) ==
    /\ Running /\ Unborrowed
    /\ op' = Call("get", NoId)
    /\ ret' = Ret(get_res(list, id) # None, NoId, get_res(list, id), None, <<>>)
    /\ UNCHANGED <<list, iters, excl, issued>>

\* if let Some(e) = el.get_mut(id) { e.name = name }   (name = None: only look)
get_mut(id, name) ==
    /\ Running /\ Unborrowed
    /\ LET e == get_mut_res(list, id) IN
       /\ IF e # None /\ name # None
          THEN /\ list' = [list EXCEPT ![id.id + 1].entity = name]
               /\ issued' = {IF r.h = id THEN [r EXCEPT !.p = name] ELSE r : r \in issued}
          ELSE UNCHANGED <<list, issued>>
       /\ op' = Call("get_mut", NoId)
       /\ ret' = Ret(e # None, NoId, e, None, <<>>)
    /\ UNCHANGED <<iters, excl>>

\* el.get_pair_mut(a, b)
get_pair_mut(a, b) ==
    /\ Running /\ Unborrowed
    /\ op' = Call("get_pair_mut", NoId)
    /\ LET r == get_pair_mut_res(list, a, b) IN
       ret' = IF r.panic THEN Panicked ELSE Ret(TRUE, NoId, r.x, r.y, <<>>)
    /\ UNCHANGED <<list, iters, excl, issued>>

\* ------------------------------------------------------------ EntityDynIter
\* struct EntitySlice { start, slice }: start is the tag the code stores; the
\* slice itself is the range of len entries of the backing vector that begins
\* at offset lo (what the reference points at).
EntitySlice(start, lo, len) == [start |-> start, lo |-> lo, len |-> len]

\* slice.slice[j] of the backing vector l
slice_entry(l, slice, j) == l[slice.lo + j + 1]

\* EntitySlice::clone
clone(slice) == EntitySlice(slice.start, slice.lo, slice.len)

\* EntityDynIter::new_all
new_all_slices(l) == <<EntitySlice(0, 0, Len(l))>>

\* EntityDynIter::new_split, for split_idx < len: left and right of the center.
new_split_slices(l, split_idx) ==
    <<EntitySlice(0, 0, split_idx),
      EntitySlice(split_idx + 1, split_idx + 1, Len(l) - split_idx - 1)>>

\* .enumerate().find(|(_, slice)| slice.start <= idx && idx < slice.start + slice.slice.len()):
\* the position (0-based) of the first slice from k on that covers idx,
\* Len(slices) when find returns None.
RECURSIVE find_slice(_, _, _)
find_slice(slices, idx, k) ==
    IF k >= Len(slices) THEN Len(slices)
    ELSE IF slices[k + 1].start <= idx /\ idx < slices[k + 1].start + slices[k + 1].len THEN k
    ELSE find_slice(slices, idx, k + 1)

\* The test of exclude without the vacancy check: only the generation counts.
exclude_rejects_gen_only(l, slice, id) ==
    slice_entry(l, slice, id.id - slice.start).gen # id.gen

\* entry.gen != id.gen || entry.entity.is_none(), on the entry of the covering slice
exclude_rejects(l, slice, id) ==
    LET entry == slice_entry(l, slice, id.id - slice.start) IN
    entry.gen # id.gen \/ entry.entity = None

\* split_at_mut one entry too far: the left remainder keeps the center.
split_left_with_center(slice, idx) ==
    EntitySlice(slice.start, slice.lo, idx - slice.start + 1)

\* slice.slice.split_at_mut(idx - slice.start), then right.split_first_mut():
\* the left remainder of the split slice.
split_left(slice, idx) == EntitySlice(slice.start, slice.lo, idx - slice.start)

\* The right remainder without split_first_mut: it still begins at the center.
split_right_with_center(slice, idx) ==
    EntitySlice(idx, slice.lo + (idx - slice.start), slice.len - (idx - slice.start))

\* The right remainder, tagged idx + 1.
split_right(slice, idx) ==
    EntitySlice(idx + 1, slice.lo + (idx - slice.start) + 1,
                slice.len - (idx - slice.start) - 1)

\* EntityDynIter::exclude, the slices of self after the call.
exclude_slices(l, slices, id) ==
    LET slice_idx == find_slice(slices, id.id, 0) IN
    IF slice_idx < Len(slices) THEN
        IF exclude_rejects(l, slices[slice_idx + 1], id) THEN slices
        ELSE Append([slices EXCEPT ![slice_idx + 1] = split_left(@, id.id)],
                    split_right(slices[slice_idx + 1], id.id))
    ELSE slices

\* EntityDynIter::exclude, the payload returned (center.entity.as_mut()).
exclude_res(l, slices, id) ==
    LET slice_idx == find_slice(slices, id.id, 0) IN
    IF slice_idx < Len(slices) THEN
        IF exclude_rejects(l, slices[slice_idx + 1], id) THEN None
        ELSE slice_entry(l, slices[slice_idx + 1], id.id - slices[slice_idx + 1].start).entity
    ELSE None

\* EntityDynIter::exclude_copy returns Some(..): a slice covers id.id.
exclude_copy_some(slices, id) == find_slice(slices, id.id, 0) < Len(slices)

\* exclude_copy that splits the covering slice without looking at the entry.
exclude_copy_slices_unchecked(l, slices, id) ==
    LET slice_idx == find_slice(slices, id.id, 0)
        left_slices == [k \in 1..slice_idx |-> clone(slices[k])]
        right_slices == [k \in 1..(Len(slices) - slice_idx - 1) |->
                            clone(slices[slice_idx + 1 + k])]
    IN  Append(Append(left_slices, split_left(slices[slice_idx + 1], id.id)),
               split_right(slices[slice_idx + 1], id.id))
        \o right_slices

\* exclude_copy that appends the right remainder after the other slices, as
\* exclude does with push.
exclude_copy_slices_push_end(l, slices, id) ==
    LET slice_idx == find_slice(slices, id.id, 0) IN
    IF exclude_rejects(l, slices[slice_idx + 1], id)
    THEN [k \in 1..Len(slices) |-> clone(slices[k])]
    ELSE Append([k \in 1..Len(slices) |->
                    IF k = slice_idx + 1 THEN split_left(slices[k], id.id)
                    ELSE clone(slices[k])],
                split_right(slices[slice_idx + 1], id.id))

\* EntityDynIter::exclude_copy, the slices of the returned iterator.
exclude_copy_slices(l, slices, id) ==
    LET slice_idx == find_slice(slices, id.id, 0) IN
    IF exclude_rejects(l, slices[slice_idx + 1], id)
    THEN [k \in 1..Len(slices) |-> clone(slices[k])]
    ELSE LET left_slices == [k \in 1..slice_idx |-> clone(slices[k])]
             right_slices == [k \in 1..(Len(slices) - slice_idx - 1) |->
                                 clone(slices[slice_idx + 1 + k])]
         IN  Append(Append(left_slices, split_left(slices[slice_idx + 1], id.id)),
                    split_right(slices[slice_idx + 1], id.id))
             \o right_slices

\* EntityDynIter::exclude_copy, the element returned beside the iterator.
exclude_copy_res(l, slices, id) ==
    LET slice_idx == find_slice(slices, id.id, 0) IN
    IF exclude_rejects(l, slices[slice_idx + 1], id) THEN None
    ELSE slice_entry(l, slices[slice_idx + 1], id.id - slices[slice_idx + 1].start).entity

\* dyn_iter_id building each handle with generation 0 instead of val.gen.
RECURSIVE slice_items_id_gen0(_, _, _)
slice_items_id_gen0(l, slice, j) ==
    IF j >= slice.len THEN <<>>
    ELSE LET val == slice_entry(l, slice, j)
             rest == slice_items_id_gen0(l, slice, j + 1)
         IN  IF val.entity = None THEN rest
             ELSE <<[id |-> [id |-> j + slice.start, gen |-> 0], entity |-> val.entity]>>
                  \o rest

\* slice.slice.iter().enumerate() ... filter_map: the (EntityId, &Entity) items
\* of one slice from local index j on.
RECURSIVE slice_items_id(_, _, _)
slice_items_id(l, slice, j) ==
    IF j >= slice.len THEN <<>>
    ELSE LET val == slice_entry(l, slice, j)
             rest == slice_items_id(l, slice, j + 1)
         IN  IF val.entity = None THEN rest
             ELSE <<[id |-> [id |-> j + slice.start, gen |-> val.gen], entity |-> val.entity]>>
                  \o rest

\* EntityDynIter::dyn_iter_id: flat_map over the slices from position k on.
RECURSIVE dyn_iter_id_items(_, _, _)
dyn_iter_id_items(l, slices, k) ==
    IF k >= Len(slices) THEN <<>>
    ELSE slice_items_id(l, slices[k + 1], 0) \o dyn_iter_id_items(l, slices, k + 1)

\* slice.slice.iter().filter_map(|s| s.entity.as_ref()) from local index j on.
RECURSIVE slice_items(_, _, _)
slice_items(l, slice, j) ==
    IF j >= slice.len THEN <<>>
    ELSE LET val == slice_entry(l, slice, j)
             rest == slice_items(l, slice, j + 1)
         IN  IF val.entity = None THEN rest ELSE <<val.entity>> \o rest

\* DynIter::dyn_iter for EntityDynIter
RECURSIVE dyn_iter_items(_, _, _)
dyn_iter_items(l, slices, k) ==
    IF k >= Len(slices) THEN <<>>
    ELSE slice_items(l, slices[k + 1], 0) \o dyn_iter_items(l, slices, k + 1)

\* DynIterMut::dyn_iter_mut for EntityDynIter
RECURSIVE dyn_iter_mut_items(_, _, _)
dyn_iter_mut_items(l, slices, k) ==
    IF k >= Len(slices) THEN <<>>
    ELSE slice_items(l, slices[k + 1], 0) \o dyn_iter_mut_items(l, slices, k + 1)

\* The iterator that can be used: the innermost live one.
Top == Len(iters)
Borrowed == iters # <<>>

\* let dyn_iter = EntityDynIter::new_all(&mut el)
new_all ==
    /\ Running /\ Unborrowed
    /\ iters' = <<new_all_slices(list)>>
    /\ excl' = <<{}>>
    /\ op' = Call("new_all", NoId)
    /\ ret' = Ret(TRUE, NoId, None, None, <<>>)
    /\ UNCHANGED <<list, issued>>

\* EntityDynIter::new_split(&mut el, split_idx)
new_split(split_idx) ==
    /\ Running /\ Unborrowed
    /\ op' = Call("new_split", NoId)
    /\ IF split_idx > Len(list)
       THEN \* source.0.split_at_mut(split_idx) panics
            /\ ret' = Panicked
            /\ UNCHANGED <<iters, excl>>
       ELSE IF split_idx = Len(list)
       THEN \* right.split_first_mut()? returns None
            /\ ret' = Ret(FALSE, NoId, None, None, <<>>)
            /\ UNCHANGED <<iters, excl>>
       ELSE /\ ret' = Ret(TRUE, [id |-> split_idx, gen |-> list[split_idx + 1].gen],
                          list[split_idx + 1].entity, None, <<>>)
            /\ iters' = <<new_split_slices(list, split_idx)>>
            /\ excl' = <<{split_idx}>>
    /\ UNCHANGED <<list, issued>>

\* dyn_iter.exclude(id)
exclude(id) ==
    /\ Running /\ Borrowed
    /\ iters' = [iters EXCEPT ![Top] = exclude_slices(list, @, id)]
    /\ excl' = [excl EXCEPT ![Top] =
                   IF exclude_res(list, iters[Top], id) # None THEN @ \cup {id.id} ELSE @]
    /\ op' = Call("exclude", NoId)
    /\ ret' = Ret(exclude_res(list, iters[Top], id) # None, NoId,
                  exclude_res(list, iters[Top], id), None, <<>>)
    /\ UNCHANGED <<list, issued>>

\* exclude_copy that splits the slice of self as exclude does, besides forking.
exclude_copy_consuming(id) ==
    /\ Running /\ Borrowed
    /\ Len(iters) <= MaxForks
    /\ op' = Call("exclude_copy", NoId)
    /\ IF exclude_copy_some(iters[Top], id)
       THEN /\ iters' = Append([iters EXCEPT ![Top] = exclude_copy_slices(list, @, id)],
                               exclude_copy_slices(list, iters[Top], id))
            /\ excl' = Append(excl,
                   IF exclude_copy_res(list, iters[Top], id) # None
                   THEN excl[Top] \cup {id.id} ELSE excl[Top])
            /\ ret' = Ret(TRUE, NoId, exclude_copy_res(list, iters[Top], id), None, <<>>)
       ELSE /\ ret' = Ret(FALSE, NoId, None, None, <<>>)
            /\ UNCHANGED <<iters, excl>>
    /\ UNCHANGED <<list, issued>>

\* let (elem, dyn_iter2) = dyn_iter.exclude_copy(id)?
exclude_copy(id) ==
    /\ Running /\ Borrowed
    /\ Len(iters) <= MaxForks
    /\ op' = Call("exclude_copy", NoId)
    /\ IF exclude_copy_some(iters[Top], id)
       THEN /\ iters' = Append(iters, exclude_copy_slices(list, iters[Top], id))
            /\ excl' = Append(excl,
                   IF exclude_copy_res(list, iters[Top], id) # None
                   THEN excl[Top] \cup {id.id} ELSE excl[Top])
            /\ ret' = Ret(TRUE, NoId, exclude_copy_res(list, iters[Top], id), None, <<>>)
       ELSE /\ ret' = Ret(FALSE, NoId, None, None, <<>>)
            /\ UNCHANGED <<iters, excl>>
    /\ UNCHANGED <<list, issued>>

\* dyn_iter.dyn_iter_id().collect()
dyn_iter_id ==
    /\ Running /\ Borrowed
    /\ op' = Call("dyn_iter_id", NoId)
    /\ ret' = Ret(TRUE, NoId, None, None, dyn_iter_id_items(list, iters[Top], 0))
    /\ UNCHANGED <<list, iters, excl, issued>>

\* dyn_iter.dyn_iter().collect()
dyn_iter ==
    /\ Running /\ Borrowed
    /\ op' = Call("dyn_iter", NoId)
    /\ ret' = Ret(TRUE, NoId, None, None, dyn_iter_items(list, iters[Top], 0))
    /\ UNCHANGED <<list, iters, excl, issued>>

\* An iteration that consumes the slices it visits (into_iter for iter_mut).
dyn_iter_mut_consuming ==
    /\ Running /\ Borrowed
    /\ op' = Call("dyn_iter_mut", NoId)
    /\ ret' = Ret(TRUE, NoId, None, None, dyn_iter_mut_items(list, iters[Top], 0))
    /\ iters' = [iters EXCEPT ![Top] = <<>>]
    /\ UNCHANGED <<list, excl, issued>>

\* dyn_iter.dyn_iter_mut().collect()
dyn_iter_mut ==
    /\ Running /\ Borrowed
    /\ op' = Call("dyn_iter_mut", NoId)
    /\ ret' = Ret(TRUE, NoId, None, None, dyn_iter_mut_items(list, iters[Top], 0))
    /\ UNCHANGED <<list, iters, excl, issued>>

\* drop(dyn_iter): the innermost iterator goes, its parent (or el) is usable again
drop ==
    /\ Running /\ Borrowed
    /\ iters' = SubSeq(iters, 1, Top - 1)
    /\ excl' = SubSeq(excl, 1, Top - 1)
    /\ op' = Call("drop", NoId)
    /\ ret' = Ret(FALSE, NoId, None, None, <<>>)
    /\ UNCHANGED <<list, issued>>

\* --------------------------------------------------------- specifications
\* The registry on its own: add, remove and the single lookups.
Next ==
    \/ \E entity \in Payloads : add(entity)
    \/ \E id \in EntityId : remove(id)
    \/ \E id \in EntityId : get(id)
    \/ \E id \in EntityId, name \in Payloads \cup {None} : get_mut(id, name)

Spec == Init /\ [][Next]_vars

\* The registry with the paired lookup.
NextPair ==
    \/ \E entity \in Payloads : add(entity)
    \/ \E id \in EntityId : remove(id)
    \/ \E a, b \in EntityId : get_pair_mut(a, b)

SpecPair == Init /\ [][NextPair]_vars

\* The tests name each entity after the slot it lands in ("a", "b", "c", ... at
\* 0, 1, 2, ...); the iterator never reads a name, so two names that alternate
\* with the index keep neighbouring slots distinguishable.
test_name(i) == IF i % 2 = 0 THEN "a" ELSE "b"

\* The registry filled by add and remove, then borrowed by EntityDynIter.
NextIter ==
    \/ \E entity \in Payloads : entity = test_name(first_vacant(list, 0)) /\ add(entity)
    \/ \E id \in EntityId : remove(id)
    \/ new_all
    \/ \E split_idx \in 0..MaxLen + 1 : new_split(split_idx)
    \/ \E id \in EntityId : exclude(id)
    \/ \E id \in EntityId : exclude_copy(id)
    \/ dyn_iter_id
    \/ dyn_iter
    \/ dyn_iter_mut
    \/ drop

SpecIter == Init /\ [][NextIter]_vars

\* ================================================================= claims
\* The slots of l that hold a payload, as 0-based indices.
Occupied(l) == {i \in 0..Len(l) - 1 : l[i + 1].entity # None}

\* C1 (round trip): a handle returned by add resolves through get to the payload
\* stored under it, in every state up to the first remove called with its
\* index, whatever was added or removed at other indices in between.
RoundTrip ==
    \A r \in issued : ~r.removed => get_res(list, r.h) = r.p /\ r.p \in Payloads

\* C1 witness: get has just returned the payload of a generation-0 handle that
\* is still live although another slot was vacated and reused since.
RoundTripWitness ==
    /\ op.name = "get"
    /\ \E r, q \in issued :
          /\ ~r.removed /\ r.h.gen = 0 /\ ret.x = r.p
          /\ q.h.id # r.h.id /\ q.h.gen > 0

\* C2 (permanent staleness): once a remove hit the index of a handle, get and
\* get_mut never resolve that handle again, also when a new payload occupies
\* its index; and the handle add returns for a reused slot carries a generation
\* above that of every handle returned for that index before.
PermanentStaleness ==
    /\ \A r \in issued :
          r.removed => get_res(list, r.h) = None /\ get_mut_res(list, r.h) = None
    /\ op.name = "add" =>
          \A r \in issued :
             r.h.id = ret.id.id =>
                IF r.removed THEN r.h.gen < ret.id.gen ELSE r.h = ret.id

\* C2 witness: add has just reused a slot whose earlier handle was removed.
PermanentStalenessWitness ==
    /\ op.name = "add"
    /\ ret.id.gen > 0
    /\ \E r \in issued : r.removed /\ r.h.id = ret.id.id /\ r.h.gen < ret.id.gen
    /\ list[ret.id.id + 1].entity # None

\* What C3 says a call add(entity) does to the vector and returns.
AddPost(entity) ==
    LET vacant == {i \in 0..Len(list) - 1 : list[i + 1].entity = None} IN
    IF vacant # {}
    THEN LET i == CHOOSE v \in vacant : \A w \in vacant : v <= w IN
         /\ Len(list') = Len(list)
         /\ list'[i + 1] = [gen |-> list[i + 1].gen + 1, entity |-> entity]
         /\ ret'.id = [id |-> i, gen |-> list[i + 1].gen + 1]
         /\ \A j \in 0..Len(list) - 1 : j # i => list'[j + 1] = list[j + 1]
    ELSE /\ Len(list') = Len(list) + 1
         /\ list'[Len(list) + 1] = [gen |-> 0, entity |-> entity]
         /\ ret'.id = [id |-> Len(list), gen |-> 0]
         /\ \A j \in 0..Len(list) - 1 : list'[j + 1] = list[j + 1]

\* C3 (add): add fills the vacant slot of lowest index, bumping only that
\* slot's generation by one and returning {index, new generation} with the
\* length unchanged; with no vacant slot it appends a generation-0 slot and
\* returns {old length, 0}; every other slot is left as it was.
AddContract ==
    [][op'.name = "add" => \E entity \in Payloads : AddPost(entity)]_vars

\* C3 witness: add has just reused the lower of two vacant slots.
AddContractWitness ==
    /\ op.name = "add"
    /\ ret.id.gen > 0
    /\ \E j \in 0..Len(list) - 1 : j > ret.id.id /\ list[j + 1].entity = None

\* What C4 says a call remove(id) does to the vector and returns.
RemovePost(id) ==
    IF id.id < Len(list)
    THEN /\ ret'.x = list[id.id + 1].entity
         /\ Len(list') = Len(list)
         /\ list'[id.id + 1] = [gen |-> list[id.id + 1].gen, entity |-> None]
         /\ \A j \in 0..Len(list) - 1 : j # id.id => list'[j + 1] = list[j + 1]
    ELSE ret'.x = None /\ list' = list

\* C4 (remove): remove ignores the handle's generation; for an index in range
\* it returns the current occupant (nothing if vacant) and vacates the slot,
\* stale handle or not, changing no generation, no other slot and not the
\* length; for an index out of range it returns nothing and changes nothing.
RemoveContract ==
    [][\A id \in EntityId : op'.name = "remove" /\ op'.id = id => RemovePost(id)]_vars

\* C4 witness: remove was just given a stale handle (its generation is below
\* the slot's) and returned the payload of the newer occupant, vacating the slot.
RemoveContractWitness ==
    /\ op.name = "remove"
    /\ op.id.id < Len(list)
    /\ op.id.gen < list[op.id.id + 1].gen
    /\ ret.x # None
    /\ list[op.id.id + 1].entity = None

\* The indices a list of slices covers, by the tags the code keeps.
Covered(slices) ==
    {i \in 0..MaxLen + 1 : \E k \in 1..Len(slices) :
        slices[k].start <= i /\ i < slices[k].start + slices[k].len}

\* The set of items an iteration with handles yields.
Yielded(l, slices) ==
    LET s == dyn_iter_id_items(l, slices, 0) IN {s[k] : k \in 1..Len(s)}

\* A sequence of (handle, payload) items is strictly ascending by index.
Ascending(s) == \A k \in 1..Len(s) - 1 : s[k].id.id < s[k + 1].id.id

\* The payloads of the occupied slots among the indices in S, by ascending index.
RECURSIVE PayloadsInOrder(_, _, _)
PayloadsInOrder(l, S, i) ==
    IF i >= Len(l) THEN <<>>
    ELSE IF i \in S /\ l[i + 1].entity # None
         THEN <<l[i + 1].entity>> \o PayloadsInOrder(l, S, i + 1)
         ELSE PayloadsInOrder(l, S, i + 1)

\* The usable iterator came from new_all and nothing was excluded from it.
Fresh == Len(iters) = 1 /\ excl[1] = {} /\ Len(iters[1]) = 1

\* C5 (fresh iteration): dyn_iter_id on a new_all iterator yields one item per
\* occupied slot and none for a vacant one, strictly ascending by index, each
\* with a handle that get resolves to the same payload.
FreshIteration ==
    op.name = "dyn_iter_id" /\ Fresh =>
        /\ Ascending(ret.seq)
        /\ {ret.seq[k].id.id : k \in 1..Len(ret.seq)} = Occupied(list)
        /\ \A k \in 1..Len(ret.seq) :
              /\ ret.seq[k].entity # None
              /\ get_res(list, ret.seq[k].id) = ret.seq[k].entity
              /\ ret.seq[k].id.gen = list[ret.seq[k].id.id + 1].gen

\* C5 witness: a fresh iteration has just yielded two items around a vacant
\* slot, one of them from a reused slot.
FreshIterationWitness ==
    /\ op.name = "dyn_iter_id" /\ Fresh
    /\ \E j, k \in 1..Len(ret.seq) :
          /\ ret.seq[j].id.id + 1 < ret.seq[k].id.id
          /\ ret.seq[k].id.gen > 0
          /\ list[ret.seq[j].id.id + 2].entity = None

\* What C6 says a successful exclude(id) does: it returns id's payload and the
\* items the iterator yields afterwards are those it yielded before, less the
\* one at id.id.
ExcludePost(id) ==
    /\ ret'.x = list[id.id + 1].entity
    /\ Yielded(list', iters'[Top]) =
          Yielded(list, iters[Top]) \ {[id |-> id, entity |-> list[id.id + 1].entity]}
    /\ [id |-> id, entity |-> list[id.id + 1].entity] \in Yielded(list, iters[Top])

\* The valid handles whose index the usable iterator still covers.
ValidCovered ==
    {id \in EntityId : get_res(list, id) # None /\ id.id \in Covered(iters[Top])}

\* What C6 says of new_split(split_idx): everything but split_idx is yielded.
NewSplitPost ==
    op'.name = "new_split" /\ ret'.some =>
        Yielded(list', iters'[1]) =
            {it \in Yielded(list, new_all_slices(list)) : it.id.id # ret'.id.id}

\* No index carved out of a live iterator is yielded by it.
ExcludedAbsent ==
    \A d \in 1..Len(iters) :
        \A it \in Yielded(list, iters[d]) : it.id.id \notin excl[d]

\* C6 (exclusion removes exactly one element): a successful exclude returns the
\* handle's payload and takes exactly that element out of what the iterator
\* yields; new_split does the same for its index; an excluded index stays
\* absent while the iterator lives.
ExcludeRemovesOne ==
    [][ /\ op'.name = "exclude" => \A id \in ValidCovered : exclude(id) => ExcludePost(id)
        /\ NewSplitPost
        /\ iters' # iters => ExcludedAbsent' ]_vars

\* C6 witness: exclude has just returned an element of a new_split iterator,
\* which now has two indices carved out and still yields others.
ExcludeRemovesOneWitness ==
    /\ op.name = "exclude" /\ ret.x # None
    /\ Len(iters) = 1 /\ Cardinality(excl[1]) = 2
    /\ Len(iters[1]) = 3
    /\ Cardinality(Yielded(list, iters[1])) >= 2

\* The slices of every live iterator are in ascending order of start (what C7
\* adds about the slices; exclude's push breaks it too).
ViewsAscending ==
    \A d \in 1..Len(iters) :
        \A k \in 1..Len(iters[d]) - 1 : iters[d][k].start <= iters[d][k + 1].start

\* C7 (iteration order): after any exclusions, dyn_iter_id, dyn_iter and
\* dyn_iter_mut visit the remaining occupied slots in strictly ascending
\* absolute index.
IterationAscending ==
    /\ op.name = "dyn_iter_id" => Ascending(ret.seq)
    /\ op.name \in {"dyn_iter", "dyn_iter_mut"} =>
          ret.seq = PayloadsInOrder(list, Covered(iters[Top]), 0)

\* C8 (partition): in every live iterator the slices' ranges are pairwise
\* disjoint, each slice's tag is the offset its range begins at, and the ranges
\* together with the indices carved out so far make up 0..len-1, no index being
\* both in a range and carved out.
ViewPartition ==
    \A d \in 1..Len(iters) :
        LET slices == iters[d]
            Range(k) == {i \in 0..MaxLen + 1 :
                            slices[k].lo <= i /\ i < slices[k].lo + slices[k].len}
        IN  /\ \A k \in 1..Len(slices) : slices[k].start = slices[k].lo
            /\ \A j, k \in 1..Len(slices) : j # k => Range(j) \cap Range(k) = {}
            /\ UNION {Range(k) : k \in 1..Len(slices)} \cup excl[d] = 0..Len(list) - 1
            /\ UNION {Range(k) : k \in 1..Len(slices)} \cap excl[d] = {}

\* C8 witness: a fork made by exclude_copy from a new_split iterator, three
\* indices carved out of it in all, after an exclude that failed.
ViewPartitionWitness ==
    /\ Len(iters) = 2
    /\ Cardinality(excl[1]) = 2 /\ Cardinality(excl[2]) = 3
    /\ op.name = "exclude" /\ ~ret.some

\* C9 as stated (pair collision): for two handles of the same index
\* get_pair_mut returns exactly one non-empty result, never both and never
\* neither.
PairCollisionExactlyOne ==
    op.name = "get_pair_mut" =>
        \A a, b \in EntityId :
            a.id = b.id =>
                LET r == get_pair_mut_res(list, a, b) IN
                ~r.panic /\ ((r.x # None) # (r.y # None))

\* C9 as amended: for two handles of the same index get_pair_mut never returns
\* two non-empty results; the first is what get_mut gives for a, the second
\* what get_mut gives for b unless a resolved; so one result is non-empty when
\* a or b is valid and both are empty when neither is.
PairCollisionAtMostOne ==
    \A a, b \in EntityId :
        a.id = b.id =>
            LET r == get_pair_mut_res(list, a, b) IN
            /\ ~r.panic
            /\ ~(r.x # None /\ r.y # None)
            /\ r.x = get_mut_res(list, a)
            /\ r.y = IF get_mut_res(list, a) # None THEN None ELSE get_mut_res(list, b)
            /\ (r.x # None \/ r.y # None) <=>
                  (get_mut_res(list, a) # None \/ get_mut_res(list, b) # None)

\* C9 witness: get_pair_mut has just returned two empty results without
\* panicking, in a registry whose every slot is occupied and where a reused
\* slot makes an older handle of its index stale.
PairCollisionWitness ==
    /\ op.name = "get_pair_mut" /\ ~ret.panic
    /\ ret.x = None /\ ret.y = None
    /\ Len(list) = MaxLen /\ Occupied(list) = 0..Len(list) - 1
    /\ \E r \in issued : r.removed /\ list[r.h.id + 1].gen > r.h.gen

\* C10 (pair symmetry): for valid distinct handles a and b, get_pair_mut(b, a)
\* returns the results of get_pair_mut(a, b) in swapped positions.
PairSymmetry ==
    \A a, b \in EntityId :
        a # b /\ get_res(list, a) # None /\ get_res(list, b) # None =>
            LET ab == get_pair_mut_res(list, a, b)
                ba == get_pair_mut_res(list, b, a)
            IN  ~ab.panic /\ ~ba.panic /\ ab.x = ba.y /\ ab.y = ba.x

\* C10 witness: get_pair_mut has just returned two different payloads.
PairSymmetryWitness ==
    /\ op.name = "get_pair_mut" /\ ~ret.panic
    /\ ret.x # None /\ ret.y # None /\ ret.x # ret.y

\* C11 (lookups never abort): get, get_mut and get_pair_mut return without
\* panicking for every handle or pair of handles, and a handle that is stale,
\* points at a vacant slot or has an index beyond the registry's length gets
\* an empty result from the single lookups.
LookupsNeverAbort ==
    /\ op.name \in {"get", "get_mut", "get_pair_mut"} => ~ret.panic
    /\ \A id \in EntityId :
          (id.id >= Len(list) \/ id.id \notin Occupied(list)) =>
              get_res(list, id) = None /\ get_mut_res(list, id) = None

\* C12 (new_split never aborts): new_split returns without panicking; it
\* returns an iterator exactly when it returns the carved-out entry, and
\* nothing is borrowed when it returns nothing.
NewSplitNeverAborts ==
    op.name = "new_split" =>
        /\ ~ret.panic
        /\ ret.some <=> Borrowed
        /\ ret.some => ret.id.id < Len(list)

\* What exclude and the iterations give on a list of slices: the (handle,
\* payload) sequence and, for each handle, the payload exclude would return.
Observed(l, slices) ==
    [seq |-> dyn_iter_id_items(l, slices, 0),
     exclude |-> [id \in EntityId |-> exclude_res(l, slices, id)],
     fork |-> [id \in EntityId |->
                  IF exclude_copy_some(slices, id)
                  THEN <<exclude_copy_res(l, slices, id), exclude_copy_slices(l, slices, id)>>
                  ELSE <<>>]]

Stale(id) == id.id < Len(list) /\ get_res(list, id) = None

\* The fork exclude_copy has just returned has the slices of its parent.
ForkedSame ==
    /\ ret'.some /\ ret'.x = None
    /\ Len(iters') = Len(iters) + 1
    /\ iters'[Len(iters')] = iters[Top]
    /\ excl'[Len(excl')] = excl[Top]

\* C14 as stated: exclude_copy on a handle that is stale or whose index was
\* already excluded from the iterator returns (None, fork), the fork having
\* the slices of the iterator it was made from.
ForkOnFailure ==
    [][ op'.name = "exclude_copy" =>
            \A id \in EntityId :
                exclude_copy(id) /\ (Stale(id) \/ id.id \in excl[Top]) => ForkedSame
      ]_vars

\* C14 as amended: exclude_copy on a handle that does not resolve but whose
\* index the iterator still covers returns (None, fork), the fork having the
\* slices of the iterator it was made from; on a handle whose index was
\* already excluded, or is beyond the registry, it returns nothing and makes
\* no fork.
ForkOnCoveredFailure ==
    [][ op'.name = "exclude_copy" =>
            \A id \in EntityId :
                exclude_copy(id) =>
                    /\ Stale(id) /\ id.id \notin excl[Top] => ForkedSame
                    /\ id.id \in excl[Top] \/ id.id >= Len(list) =>
                          ~ret'.some /\ iters' = iters /\ excl' = excl
      ]_vars

\* C14 witness: exclude_copy has just returned (None, fork) from a new_split
\* iterator that still yields elements, the fork having its parent's slices.
ForkOnCoveredFailureWitness ==
    /\ op.name = "exclude_copy" /\ ret.some /\ ret.x = None
    /\ Len(iters) = 2 /\ iters[2] = iters[1]
    /\ excl[1] # {} /\ Yielded(list, iters[1]) # {}

\* C15 (failed exclude is a no-op): on every iterator, exclude with a handle
\* that does not resolve (generation mismatch, vacant slot, index out of
\* range) or whose index was already excluded (new_split's index, an earlier
\* exclude) returns nothing and leaves the slices as they were, their number,
\* order, start and extent; exclude never panics.
FailedExcludeNoOp ==
    /\ op.name = "exclude" => ~ret.panic /\ (~ret.some => ret.x = None)
    /\ Borrowed =>
          \A id \in EntityId :
              get_res(list, id) = None \/ id.id \in excl[Top] =>
                  /\ exclude_res(list, iters[Top], id) = None
                  /\ exclude_slices(list, iters[Top], id) = iters[Top]

\* C15 witness: exclude has just returned nothing on an iterator that has two
\* indices carved out, still yields elements and covers a vacant slot.
FailedExcludeNoOpWitness ==
    /\ op.name = "exclude" /\ ~ret.some /\ ~ret.panic
    /\ Len(iters) = 1 /\ Cardinality(excl[1]) = 2
    /\ Yielded(list, iters[1]) # {}
    /\ \E i \in Covered(iters[1]) : i < Len(list) /\ i \notin Occupied(list)

\* C16 (handle index bound): after every step the index of every handle add
\* ever returned is below the registry's length; no step shortens the
\* registry; and every slot stays at its index: a step changes at most one
\* slot, whose generation does not go down.
HandleIndexBound ==
    [][ /\ \A r \in issued' : r.h.id < Len(list')
        /\ Len(list') >= Len(list)
        /\ Cardinality({i \in 1..Len(list) : list'[i] # list[i]}) <= 1
        /\ \A i \in 1..Len(list) : list'[i].gen >= list[i].gen
      ]_vars

\* C16 witness: remove has just vacated a slot below the last one of a full
\* registry, whose last slot still holds the payload of an issued handle.
HandleIndexBoundWitness ==
    /\ op.name = "remove" /\ ret.some
    /\ Len(list) = MaxLen /\ op.id.id < MaxLen - 1
    /\ \E r \in issued : r.h.id = MaxLen - 1 /\ ~r.removed /\ get_res(list, r.h) = r.p

\* The sequence the iteration called name yields on a list of slices.
Iterated(name, l, slices) ==
    CASE name = "dyn_iter_id" -> dyn_iter_id_items(l, slices, 0)
      [] name = "dyn_iter" -> dyn_iter_items(l, slices, 0)
      [] name = "dyn_iter_mut" -> dyn_iter_mut_items(l, slices, 0)

\* C17 (repeatability): dyn_iter, dyn_iter_mut and dyn_iter_id leave the
\* slices of every iterator and the slots' occupancy and generations as they
\* were, so the same call made again on what they left yields the sequence
\* they have just yielded, and equals the previous result when the previous
\* call was the same one.
Repeatability ==
    [][ op'.name \in {"dyn_iter", "dyn_iter_mut", "dyn_iter_id"} =>
            /\ iters' = iters /\ excl' = excl
            /\ Len(list') = Len(list)
            /\ \A i \in 1..Len(list) :
                  list'[i].gen = list[i].gen /\ (list'[i].entity = None) = (list[i].entity = None)
            /\ ret'.seq = Iterated(op'.name, list', iters'[Len(iters')])
            /\ op.name = op'.name => ret'.seq = ret.seq
      ]_vars

\* C17 witness: dyn_iter_mut has just yielded two or more payloads from an
\* iterator with two indices carved out.
RepeatabilityWitness ==
    /\ op.name = "dyn_iter_mut" /\ Len(ret.seq) >= 2
    /\ Len(iters) = 1 /\ Cardinality(excl[1]) = 2

\* The number of add calls that stored a payload in the slot of index i: add
\* returned a different handle for each.
Insertions(i) == Cardinality({r \in issued : r.h.id = i})

\* C18 as stated: each slot's generation is the number of add calls that
\* stored a payload in it, the first one included.
GenerationCountsInsertions ==
    \A i \in 0..Len(list) - 1 : list[i + 1].gen = Insertions(i)

\* C18 as amended: a slot is created by the add that first stores a payload
\* in it, with generation 0, and every later add that stores a payload in it
\* increments the generation; so each slot's generation is the number of add
\* calls that stored a payload in it, less one.
GenerationCountsReuses ==
    \A i \in 0..Len(list) - 1 :
        /\ Insertions(i) >= 1
        /\ list[i + 1].gen = Insertions(i) - 1

\* C18 witness: add has just reused a slot, whose generation is now 1 after
\* two insertions, beside a slot still at generation 0.
GenerationCountsReusesWitness ==
    /\ op.name = "add" /\ ret.id.gen = 1
    /\ list[ret.id.id + 1].gen = 1 /\ Insertions(ret.id.id) = 2
    /\ \E i \in 0..Len(list) - 1 : list[i + 1].gen = 0 /\ Insertions(i) = 1

\* The handles that resolve in registry l.
Valid(l) == {id \in EntityId : get_res(l, id) # None}

\* C19 (handle uniqueness): the handle an add returns was returned by no
\* earlier add; and after every step each index has at most one handle that
\* resolves via get, the one with the slot's current generation, and has one
\* only while the slot is occupied.
HandleUniqueness ==
    [][ /\ op'.name = "add" => ret'.id \notin {r.h : r \in issued}
        /\ \A id \in Valid(list') :
              /\ id.id < Len(list') /\ id.id \in Occupied(list')
              /\ id.gen = list'[id.id + 1].gen
              /\ \A other \in Valid(list') : other.id = id.id => other = id
      ]_vars

\* C19 witness: add has just returned a second handle for an index it had
\* issued a handle for before; the new handle resolves and the old one does not.
HandleUniquenessWitness ==
    /\ op.name = "add" /\ ret.id \in Valid(list)
    /\ \E r \in issued :
          r.h.id = ret.id.id /\ r.h # ret.id /\ r.removed /\ r.h \notin Valid(list)

\* C20 (get_pair_mut agrees with the single lookups): for two handles of
\* different indices, both inside the registry, get_pair_mut does not panic
\* and returns what get_mut returns for the first handle and what get_mut
\* returns for the second, whichever index is larger and whether the handles
\* are valid, stale or point at vacant slots.
PairAgreesWithSingles ==
    \A a, b \in EntityId :
        a.id # b.id /\ a.id < Len(list) /\ b.id < Len(list) =>
            LET r == get_pair_mut_res(list, a, b) IN
            /\ ~r.panic
            /\ r.x = get_mut_res(list, a)
            /\ r.y = get_mut_res(list, b)

\* C20 witness: get_pair_mut has just returned one payload and one empty
\* result in a full registry that has an occupied slot, a vacant slot and a
\* stale handle of a reoccupied slot.
PairAgreesWithSinglesWitness ==
    /\ op.name = "get_pair_mut" /\ ~ret.panic
    /\ ret.x = None /\ ret.y # None
    /\ Len(list) = MaxLen
    /\ Occupied(list) # {} /\ Occupied(list) # 0..Len(list) - 1
    /\ \E r \in issued : r.removed /\ list[r.h.id + 1].gen > r.h.gen
                            /\ list[r.h.id + 1].entity # None

\* The slices are in strictly ascending order of start.
SlicesAscending(slices) ==
    \A k \in 1..Len(slices) - 1 : slices[k].start < slices[k + 1].start

\* What C21 says of one valid handle id that the list of slices still covers.
ForkRefines(slices, id) ==
    LET fork == exclude_copy_slices(list, slices, id)
        after == exclude_slices(list, slices, id)
        k == find_slice(slices, id.id, 0)
    IN  /\ exclude_copy_some(slices, id)
        /\ exclude_copy_res(list, slices, id) = exclude_res(list, slices, id)
        /\ exclude_copy_res(list, slices, id) = get_res(list, id)
        /\ Covered(fork) = Covered(after)
        /\ Covered(fork) = Covered(slices) \ {id.id}
        /\ Yielded(list, fork) = Yielded(list, after)
        /\ Len(fork) = Len(slices) + 1
        /\ SubSeq(fork, 1, k) = SubSeq(slices, 1, k)
        /\ fork[k + 1].start = slices[k + 1].start
        /\ fork[k + 1].start + fork[k + 1].len = id.id
        /\ fork[k + 2].start = id.id + 1
        /\ fork[k + 2].start + fork[k + 2].len = slices[k + 1].start + slices[k + 1].len
        /\ SubSeq(fork, k + 3, Len(fork)) = SubSeq(slices, k + 2, Len(slices))
        /\ SlicesAscending(slices) => SlicesAscending(fork)

\* C21 (exclude_copy refines exclude): on every iterator and for every valid
\* handle it still covers, exclude_copy returns the element exclude returns
\* and a fork that covers, and yields, what the iterator would after exclude;
\* the fork holds the left and right remainders next to each other where the
\* split slice was, the other slices in place, so its slices ascend by start
\* whenever the iterator's do.
ForkRefinesExclude ==
    Borrowed => \A id \in ValidCovered : ForkRefines(iters[Top], id)

\* C21 witness: exclude_copy has just returned an element and a fork of three
\* ascending slices, which are not the slices exclude would have left.
ForkRefinesExcludeWitness ==
    /\ op.name = "exclude_copy" /\ ret.x # None
    /\ Len(iters) = 2 /\ Len(iters[2]) = 3 /\ SlicesAscending(iters[2])
    /\ \E id \in EntityId :
          /\ get_res(list, id) = ret.x /\ id.id \in Covered(iters[1])
          /\ iters[2] = exclude_copy_slices(list, iters[1], id)
          /\ iters[2] # exclude_slices(list, iters[1], id)
====
